---- MODULE Spec2Model ----
(***************************************************************************)
(* Tomatotificatorul (main.c): the tick handler ISR(TIM0_COMPA_vect), the  *)
(* button handler ISR(INT0_vect) and the main loop of main().              *)
(*                                                                         *)
(* An interrupt handler runs to completion (interrupts are masked while a  *)
(* handler runs), so each handler is one action.  The main loop is cut at  *)
(* every access to a variable it shares with a handler or to PORTB, so a   *)
(* handler may run between any two of them.                                *)
(***************************************************************************)
EXTENDS Integers, Sequences, FiniteSets

(***************************************************************************)
(* Program constants.                                                      *)
(***************************************************************************)
HOURLY_ERROR_SEC == 1
FULL_DAY_TICKS == (3600 + HOURLY_ERROR_SEC) * 24
SOLAR_PANEL_THRESHOLD == 553
TIMER_OVERFLOW_TICK == 4708

WATER_EVENT(hour, min, sec) == 3600 * hour + 60 * min + sec

g_daily_events ==
    << WATER_EVENT(0, 0, 5),
       WATER_EVENT(0, 5, 0),
       WATER_EVENT(0, 30, 0),
       WATER_EVENT(1, 0, 0) >>

\* Bits of PORTB / PINB.
PB0 == 0
PB1 == 1
PB2 == 2

\* adc_read() returns a 10-bit conversion.
AdcRange == 0 .. 1023

(***************************************************************************)
(* Bounds of the model.                                                    *)
(***************************************************************************)
\* The tick handler is followed over the first Horizon ticks of a day ...
Horizon == 13
\* ... and over the last LateWindow ticks before the day wrap.
LateWindow == 4
\* SpecMap follows the first MapHorizon ticks after boot.
MapHorizon == 6
\* At most MaxLag ticks fire between two reads of g_ticks at the loop head.
MaxLag == 1

\* SpecTimer follows the overflow stages of the first TimerHorizon ticks.
TimerHorizon == 6

\* Positions of the potentiometer the environment moves it to in Spec:
\* 0 -> 5 s, 38 -> 7 s.
DurationSamples == {0, 38}
\* Solar panel conversions: just below and at the charging threshold.
SolarSamples == {SOLAR_PANEL_THRESHOLD - 1, SOLAR_PANEL_THRESHOLD}

VARIABLES
    g_overflows,        \* static volatile uint16_t g_overflows
    ocie0a,             \* TIMSK0 bit OCIE0A: the compare match interrupt is enabled
    g_ticks,            \* static volatile uint32_t g_ticks
    pump_start_ticks,   \* static volatile uint32_t pump_start_ticks (ISR local static)
    g_water_plant,      \* confirmed manual request
    g_water_button,     \* raw request seen by INT0
    g_led_lock,         \* indicator lock
    g_duration,         \* static volatile uint8_t g_duration
    PORTB,              \* set of the bits of PORTB that are 1
    button_low,         \* PINB bit PB1 reads 0 (button pressed)
    adc3,               \* level at ADC3 (duration potentiometer), as adc_read(3) returns it
    pc,                 \* position of main() inside while(true)
    rd,                 \* bytes of g_ticks loaded so far by the read in progress
    prev_tick,          \* main(): uint32_t prev_tick
    duration,           \* main(): uint32_t duration
    solar_panel,        \* main(): uint32_t solar_panel
    portb_tmp,          \* register holding PORTB inside STATUS_LED_TOGGLE()
    lag,                \* ticks fired since main() last compared g_ticks with prev_tick
    start_duration,     \* history: g_duration at the tick the current run was created
    start_cause,        \* history: the branch that created the current run
    request_in_run      \* history: g_water_plant was set (line 521) while a run was active

vars == << g_overflows, ocie0a,
           g_ticks, pump_start_ticks, g_water_plant, g_water_button, g_led_lock,
           g_duration, PORTB, button_low, adc3, pc, rd, prev_tick, duration,
           solar_panel, portb_tmp, lag, start_duration, start_cause, request_in_run >>

isrVars == << g_overflows, ocie0a, g_ticks, pump_start_ticks, g_water_plant, g_led_lock, start_duration,
             start_cause, request_in_run >>
mainLocals == << pc, rd, prev_tick, duration, solar_panel, portb_tmp >>

(***************************************************************************)
(* ISR(TIM0_COMPA_vect), piece by piece.                                   *)
(***************************************************************************)

\* EventMatch whose loop starts at the second entry of the table.
EventMatch_SkipFirst(t) == \E i \in 2 .. Len(g_daily_events) : t = g_daily_events[i]

\* Is water scheduled at tick t?  (the for loop over g_daily_events)
EventMatch(t) == \E i \in 1 .. Len(g_daily_events) : t = g_daily_events[i]

\* StartTick taking the start tick from the clock after the wrap of line 407.
StartTick_Wrapped(ps, wp, t) ==
    IF ps = 0
    THEN IF wp THEN t % FULL_DAY_TICKS
         ELSE IF EventMatch(t) THEN t % FULL_DAY_TICKS ELSE 0
    ELSE ps

\* StartTick without the test of line 349 (pump_start_ticks == 0).
StartTick_Reentrant(ps, wp, t) ==
    IF wp THEN t
    ELSE IF EventMatch(t) THEN t ELSE ps

\* Lines 349-376: the value of pump_start_ticks after the trigger test, from
\* its value ps before it, the confirmed request wp and the incremented clock t.
StartTick(ps, wp, t) ==
    IF ps = 0
    THEN IF wp THEN t
         ELSE IF EventMatch(t) THEN t ELSE 0
    ELSE ps

\* ConsumeRequest without line 355 (g_water_plant = false).
ConsumeRequest_Kept(ps, wp) == wp

\* ConsumeRequest with line 355 outside the test of line 349.
ConsumeRequest_Always(ps, wp) == FALSE

\* Lines 351-355: g_water_plant after the trigger test.
ConsumeRequest(ps, wp) == IF ps = 0 /\ wp THEN FALSE ELSE wp

\* Line 378: the pump is switched on in this tick.
StartDue(ps, t) == ps = t

\* StopDue measuring the elapsed ticks across the day wrap.
StopDue_Wrapped(ps, t, dur) ==
    ps # 0 /\ (t + FULL_DAY_TICKS - ps) % FULL_DAY_TICKS >= dur

\* Lines 387-391: the pump is switched off in this tick.
StopDue(ps, t, dur) == ps # 0 /\ t >= ps + dur

\* WrapDay that wraps one tick late.
WrapDay_Late(t) == IF t > FULL_DAY_TICKS THEN 0 ELSE t

\* Line 407: 1 day wrap around.
WrapDay(t) == t % FULL_DAY_TICKS

\* Lines 382-384: PUMP_ON(); STATUS_LED_LOCK(); STATUS_LED_ON();
PortAfterStart(on, p) == IF on THEN p \cup {PB0, PB2} ELSE p
LockAfterStart(on, lock) == IF on THEN TRUE ELSE lock

\* Lines 395-397: PUMP_OFF(); STATUS_LED_OFF(); STATUS_LED_UNLOCK();
PortAfterStop(off, p) == IF off THEN p \ {PB0, PB2} ELSE p

\* LockAfterStop without line 397 (STATUS_LED_UNLOCK()).
LockAfterStop_Held(off, lock) == lock

LockAfterStop(off, lock) == IF off THEN FALSE ELSE lock

\* Line 401: pump_start_ticks = 0;
StartAfterStop(off, ps) == IF off THEN 0 ELSE ps

\* The whole handler, lines 342-407.  made: one of the two assignments of
\* lines 359 and 371 is executed.
TickBody ==
    LET t    == g_ticks + 1
        ps1  == StartTick(pump_start_ticks, g_water_plant, t)
        on   == StartDue(ps1, t)
        off  == StopDue(ps1, t, g_duration)
        made == pump_start_ticks = 0 /\ (g_water_plant \/ EventMatch(t))
    IN  /\ ocie0a' = FALSE
        /\ g_overflows' = g_overflows
        /\ g_water_plant' = ConsumeRequest(pump_start_ticks, g_water_plant)
        /\ pump_start_ticks' = StartAfterStop(off, ps1)
        /\ PORTB' = PortAfterStop(off, PortAfterStart(on, PORTB))
        /\ g_led_lock' = LockAfterStop(off, LockAfterStart(on, g_led_lock))
        /\ g_ticks' = WrapDay(t)
        /\ start_duration' = IF off THEN 0 ELSE IF made THEN g_duration
                                                ELSE start_duration
        /\ start_cause' = IF off THEN "none"
                          ELSE IF made
                               THEN (IF g_water_plant THEN "manual" ELSE "scheduled")
                               ELSE start_cause
        /\ request_in_run' = (g_water_plant' /\ request_in_run)
        /\ UNCHANGED << g_water_button, g_duration, button_low, adc3, mainLocals >>

\* The ticks Spec follows.
TickWindow == g_ticks < Horizon \/ g_ticks >= FULL_DAY_TICKS - LateWindow

TIM0_COMPA ==
    /\ TickWindow
    /\ lag < MaxLag
    /\ lag' = lag + 1
    /\ TickBody

\* The ticks SpecMap follows.
TIM0_COMPA_Map ==
    /\ g_ticks < MapHorizon
    /\ lag < MaxLag
    /\ lag' = lag + 1
    /\ TickBody

(***************************************************************************)
(* ISR(TIM0_OVF_vect): the overflow stage of one tick.  The compare match   *)
(* (TCNT0 = OCR0A, line 284) comes before the next overflow of the 8 bit    *)
(* counter, so an enabled compare handler runs before the next overflow.    *)
(***************************************************************************)
\* OverflowsAfter without line 311 (g_overflows = 0).
OverflowsAfter_NoReset(n) == (n + 1) % 65536

\* Lines 306-311: g_overflows after the handler, entered with the count n.
OverflowsAfter(n) ==
    IF (n + 1) % 65536 = TIMER_OVERFLOW_TICK THEN 0 ELSE (n + 1) % 65536

\* Lines 306-309: the handler enables the compare match interrupt.
StageDone(n) == (n + 1) % 65536 = TIMER_OVERFLOW_TICK

TIM0_OVF ==
    /\ ~ocie0a
    /\ g_ticks < TimerHorizon
    /\ g_overflows' = OverflowsAfter(g_overflows)
    /\ ocie0a' = (ocie0a \/ StageDone(g_overflows))
    /\ UNCHANGED << g_ticks, pump_start_ticks, g_water_plant, g_led_lock,
                    start_duration, start_cause, request_in_run,
                    g_water_button, g_duration, PORTB, button_low, adc3,
                    mainLocals, lag >>

\* The compare handler, run when it is enabled.
TIM0_COMPA_Timer ==
    /\ ocie0a
    /\ TickBody
    /\ lag' = lag

(***************************************************************************)
(* ISR(INT0_vect): falling edge of the button pin.                         *)
(***************************************************************************)
ButtonPress ==
    /\ ~button_low
    /\ button_low' = TRUE
    /\ g_water_button' = TRUE
    /\ UNCHANGED << isrVars, g_duration, PORTB, adc3, mainLocals, lag >>

ButtonRelease ==
    /\ button_low
    /\ button_low' = FALSE
    /\ UNCHANGED << isrVars, g_water_button, g_duration, PORTB, adc3, mainLocals, lag >>

\* The operator turns the potentiometer.
TurnPot ==
    /\ \E s \in DurationSamples : s # adc3 /\ adc3' = s
    /\ UNCHANGED << isrVars, g_water_button, g_duration, PORTB, button_low,
                    mainLocals, lag >>

(***************************************************************************)
(* main(): while (true) { ... }                                            *)
(***************************************************************************)

\* Byte k of a uint32_t.
Byte(v, k) == (v \div (256 ^ k)) % 256

\* What a 4-byte load of g_ticks has after byte k, given what it had before.
LoadByte(sofar, v, k) == sofar + Byte(v, k) * (256 ^ k)

\* One byte of the read of g_ticks at "at", low byte first; "next" follows it.
\* g_ticks < 2^24 at every tick boundary, so byte 3 is 0 and is loaded with byte 2.
ReadStep(at, k, next) ==
    /\ pc = at
    /\ rd' = LoadByte(IF k = 0 THEN 0 ELSE rd, g_ticks, k)
    /\ pc' = next
    /\ UNCHANGED << isrVars, g_water_button, g_duration, PORTB, button_low, adc3,
                    prev_tick, duration, solar_panel, portb_tmp, lag >>

\* Line 512: if (g_ticks != prev_tick); otherwise sleep_cpu() and loop.
Main_l512_lo == ReadStep("l512_0", 0, "l512_1")
Main_l512_mid == ReadStep("l512_1", 1, "l512_2")
Main_l512 ==
    /\ pc = "l512_2"
    /\ rd' = LoadByte(rd, g_ticks, 2)
    /\ pc' = IF rd' # prev_tick THEN "l514_0" ELSE "l512_0"
    /\ lag' = 0
    /\ UNCHANGED << isrVars, g_water_button, g_duration, PORTB, button_low, adc3,
                    prev_tick, duration, solar_panel, portb_tmp >>

\* Line 514: prev_tick = g_ticks;
Main_l514_lo == ReadStep("l514_0", 0, "l514_1")
Main_l514_mid == ReadStep("l514_1", 1, "l514_2")
Main_l514 ==
    /\ pc = "l514_2"
    /\ rd' = LoadByte(rd, g_ticks, 2)
    /\ prev_tick' = rd'
    /\ pc' = "l518"
    /\ UNCHANGED << isrVars, g_water_button, g_duration, PORTB, button_low, adc3,
                    duration, solar_panel, portb_tmp, lag >>

\* Debounced without the level test of line 519.
Debounced_NoLevel(raw, low) == raw

\* Lines 518-519: if (g_water_button && (PINB & (1 << PB1)) == 0)
Debounced(raw, low) == raw /\ low

Main_l518 ==
    /\ pc = "l518"
    /\ pc' = IF Debounced(g_water_button, button_low) THEN "l521" ELSE "l527"
    /\ UNCHANGED << isrVars, g_water_button, g_duration, PORTB, button_low, adc3,
                    rd, prev_tick, duration, solar_panel, portb_tmp, lag >>

\* Line 521: g_water_plant = true;
Main_l521 ==
    /\ pc = "l521"
    /\ g_water_plant' = TRUE
    /\ request_in_run' = (pump_start_ticks # 0)
    /\ pc' = "l522"
    /\ UNCHANGED << g_overflows, ocie0a,
                    g_ticks, pump_start_ticks, g_led_lock, start_duration, start_cause,
                    g_water_button, g_duration, PORTB, button_low, adc3,
                    rd, prev_tick, duration, solar_panel, portb_tmp, lag >>

\* Line 522: g_water_button = false;
Main_l522 ==
    /\ pc = "l522"
    /\ g_water_button' = FALSE
    /\ pc' = "l527"
    /\ UNCHANGED << isrVars, g_duration, PORTB, button_low, adc3,
                    rd, prev_tick, duration, solar_panel, portb_tmp, lag >>

\* Line 527: uint32_t duration = adc_read(3);
Main_l527 ==
    /\ pc = "l527"
    /\ duration' = adc3
    /\ pc' = "l537"
    /\ UNCHANGED << isrVars, g_water_button, g_duration, PORTB, button_low, adc3,
                    rd, prev_tick, solar_panel, portb_tmp, lag >>

\* DurationMap rounding to nearest instead of truncating.
DurationMap_Rounded(sample) == (2 * 55 * sample + 1023) \div (2 * 1023) + 5

\* DurationMap without the offset b = 5.
DurationMap_NoOffset(sample) == (55 * sample) \div 1023

\* Line 537: duration = 55 * duration / 1023 + 5;  (uint32_t arithmetic)
DurationMap(sample) == (55 * sample) \div 1023 + 5

\* Line 540: the uint32_t is narrowed to the uint8_t g_duration.
Narrow8(v) == v % 256

\* Lines 537-541: the mapping, then cli(); g_duration = duration; sei();
Main_l537 ==
    /\ pc = "l537"
    /\ duration' = DurationMap(duration)
    /\ g_duration' = Narrow8(duration')
    /\ pc' = "l545"
    /\ UNCHANGED << isrVars, g_water_button, PORTB, button_low, adc3,
                    rd, prev_tick, solar_panel, portb_tmp, lag >>

\* Charging with > for >= in line 573.
Charging_Strict(sample) == sample > SOLAR_PANEL_THRESHOLD

\* Line 573: the battery is charging.
Charging(sample) == sample >= SOLAR_PANEL_THRESHOLD

\* Line 545: uint32_t solar_panel = adc_read(2);
Main_l545 ==
    /\ pc = "l545"
    /\ \E sample \in SolarSamples : solar_panel' = sample
    /\ pc' = "l564"
    /\ UNCHANGED << isrVars, g_water_button, g_duration, PORTB, button_low, adc3,
                    rd, prev_tick, duration, portb_tmp, lag >>

\* Lines 564 and 573: the toggle is due.
ToggleDue(lock, sample) == ~lock /\ Charging(sample)

\* Lines 564-573: if (!STATUS_LED_LOCKED()) if (solar_panel >= SOLAR_PANEL_THRESHOLD);
\* solar_panel is not used after the test.
Main_l564 ==
    /\ pc = "l564"
    /\ pc' = IF ToggleDue(g_led_lock, solar_panel) THEN "l577" ELSE "l512_0"
    /\ solar_panel' = 0
    /\ UNCHANGED << isrVars, g_water_button, g_duration, PORTB, button_low, adc3,
                    rd, prev_tick, duration, portb_tmp, lag >>

\* Line 577: STATUS_LED_TOGGLE(), PORTB ^= (1 << PB2): in, eor, out.
Toggled(p, bit) == IF bit \in p THEN p \ {bit} ELSE p \cup {bit}

Main_l577_in ==
    /\ pc = "l577"
    /\ portb_tmp' = PORTB
    /\ pc' = "l577_out"
    /\ UNCHANGED << isrVars, g_water_button, g_duration, PORTB, button_low, adc3,
                    rd, prev_tick, duration, solar_panel, lag >>

Main_l577_out ==
    /\ pc = "l577_out"
    /\ PORTB' = Toggled(portb_tmp, PB2)
    /\ portb_tmp' = {}
    /\ pc' = "l512_0"
    /\ UNCHANGED << isrVars, g_water_button, g_duration, button_low, adc3,
                    rd, prev_tick, duration, solar_panel, lag >>

(***************************************************************************)
(* The program from boot, and picked up idle LateWindow ticks before the   *)
(* day wrap (the state idle ticks lead to from boot).                      *)
(***************************************************************************)
StartTicks == {0, FULL_DAY_TICKS - LateWindow}

InitAt(t0, pot) ==
    /\ g_overflows = 0
    /\ ocie0a = FALSE
    /\ g_ticks = t0
    /\ pump_start_ticks = 0
    /\ g_water_plant = FALSE
    /\ g_water_button = FALSE
    /\ g_led_lock = FALSE
    /\ g_duration = 5
    /\ PORTB = {PB1}
    /\ button_low = FALSE
    /\ adc3 = pot
    /\ pc = "l512_0"
    /\ rd = 0
    /\ prev_tick = t0
    /\ duration = 0
    /\ solar_panel = 0
    /\ portb_tmp = {}
    /\ lag = 0
    /\ start_duration = 0
    /\ start_cause = "none"
    /\ request_in_run = FALSE

Init == \E t0 \in StartTicks : InitAt(t0, 0)

Next ==
    \/ TIM0_COMPA
    \/ ButtonPress
    \/ ButtonRelease
    \/ TurnPot
    \/ Main_l512_lo
    \/ Main_l512_mid
    \/ Main_l512
    \/ Main_l514_lo
    \/ Main_l514_mid
    \/ Main_l514
    \/ Main_l518
    \/ Main_l521
    \/ Main_l522
    \/ Main_l527
    \/ Main_l537
    \/ Main_l545
    \/ Main_l564
    \/ Main_l577_in
    \/ Main_l577_out

Spec == Init /\ [][Next]_vars

(***************************************************************************)
(* The duration controller over every position of the potentiometer: the  *)
(* position is drawn at boot and held; no button.                          *)
(***************************************************************************)
InitMap == \E pot \in AdcRange : InitAt(0, pot)

NextMap ==
    \/ TIM0_COMPA_Map
    \/ Main_l512_lo
    \/ Main_l512_mid
    \/ Main_l512
    \/ Main_l514_lo
    \/ Main_l514_mid
    \/ Main_l514
    \/ Main_l518
    \/ Main_l527
    \/ Main_l537
    \/ Main_l545
    \/ Main_l564
    \/ Main_l577_in
    \/ Main_l577_out

SpecMap == InitMap /\ [][NextMap]_vars

(***************************************************************************)
(* The tick source alone: every overflow of the counter, the compare       *)
(* handler when enabled; the main loop does not run.                       *)
(***************************************************************************)
NextTimer ==
    \/ TIM0_OVF
    \/ TIM0_COMPA_Timer

SpecTimer == InitAt(0, 0) /\ [][NextTimer]_vars

(***************************************************************************)
(* Properties.                                                             *)
(***************************************************************************)

\* A run is active.
Running == pump_start_ticks # 0

\* Ticks since the active run was created, across the day wrap.
Elapsed == (g_ticks + FULL_DAY_TICKS - pump_start_ticks) % FULL_DAY_TICKS

\* The active run lies before the day wrap: no wrap in [t, t + d],
\* t its start tick and d the DurationSetting at its creation.
NoWrapRun == Running /\ pump_start_ticks + start_duration < FULL_DAY_TICKS

\* a / b rounded to nearest.
RoundDiv(a, b) == (2 * a + b) \div (2 * b)

\* C1: at most one run is active at any instant: a start tick is assigned
\* only in a tick at whose beginning no run is active, and an active run's
\* start tick (and the run it stands for) is never overwritten by a later
\* manual or scheduled trigger; it is only cleared.
C1_OneRunAtATime ==
    [][ /\ (pump_start_ticks' # pump_start_ticks /\ pump_start_ticks' # 0)
              => (pump_start_ticks = 0 /\ g_ticks' # g_ticks)
        /\ (Running /\ pump_start_ticks' # 0)
              => /\ pump_start_ticks' = pump_start_ticks
                 /\ start_duration' = start_duration
                 /\ start_cause' = start_cause ]_vars

\* C1 witness: a run created earlier is still active after the tick of the
\* first table entry, with a confirmed manual request pending as well.
W_C1_TriggersDuringRun ==
    /\ Running
    /\ pump_start_ticks < g_ticks
    /\ g_ticks = g_daily_events[1]
    /\ g_water_plant

\* C2 (as claimed): every started run ends, its activation bounded by the
\* duration: after any tick, a run that is still active has lasted fewer
\* ticks than the DurationSetting that tick compared it with, whatever the
\* DayClock value it was created at.
Cex_C2_RunEnds ==
    [][ (g_ticks' # g_ticks /\ pump_start_ticks' # 0)
            => ((g_ticks' + FULL_DAY_TICKS - pump_start_ticks') % FULL_DAY_TICKS)
                   < g_duration ]_vars

\* C3 (as claimed): a run created at tick t with duration d, no day wrap in
\* [t, t + d]: the pump output is on at the end of the tick that creates it
\* and of every later tick before t + d, and off at the end of tick t + d.
Cex_C3_OnForDuration ==
    [][ g_ticks' # g_ticks =>
          /\ (~Running /\ pump_start_ticks' # 0) => PB0 \in PORTB'
          /\ (NoWrapRun /\ g_ticks + 1 <= pump_start_ticks + start_duration)
                => ((PB0 \in PORTB')
                      <=> (g_ticks + 1 < pump_start_ticks + start_duration)) ]_vars

\* C4 (as claimed): the duration of a run is the DurationSetting at the tick
\* that created it: a run that lies before the day wrap is stopped by the
\* tick t + start_duration and by no other, whatever main() published since.
Cex_C4_DurationCaptured ==
    [][ (g_ticks' # g_ticks /\ NoWrapRun)
            => ((pump_start_ticks' = 0)
                  <=> (g_ticks + 1 = pump_start_ticks + start_duration)) ]_vars

\* C5 (as claimed): triggers that arrive while a run is active are ignored:
\* a tick that begins with a run active creates no run, and no run is ever
\* created from a manual request that was confirmed while a run was active.
Cex_C5_TriggersIgnored ==
    [][ g_ticks' # g_ticks =>
          /\ Running => pump_start_ticks' \in {pump_start_ticks, 0}
          /\ (~Running /\ pump_start_ticks' # 0 /\ start_cause' = "manual")
                => ~request_in_run ]_vars

\* C6: a tick that begins idle with a confirmed request pending and whose
\* clock value is a table entry creates one run, the manual one: the request
\* is cleared, the pump is on.  The table entry creates no run then or
\* later: a scheduled run is only ever created in the tick whose clock value
\* is the entry, and only with no request pending.
C6_ManualWins ==
    [][ g_ticks' # g_ticks =>
          /\ (~Running /\ g_water_plant /\ EventMatch(g_ticks + 1))
                => /\ pump_start_ticks' = g_ticks + 1
                   /\ start_cause' = "manual"
                   /\ ~g_water_plant'
                   /\ g_led_lock'
                   /\ PB0 \in PORTB'
          /\ (start_cause # "scheduled" /\ start_cause' = "scheduled")
                => /\ EventMatch(g_ticks + 1)
                   /\ pump_start_ticks' = g_ticks + 1
                   /\ ~Running
                   /\ ~g_water_plant ]_vars

\* C6 witness: a manual run was created in the tick of a table entry.
W_C6_ManualAtEvent ==
    /\ start_cause = "manual"
    /\ EventMatch(pump_start_ticks)
    /\ g_ticks = pump_start_ticks
    /\ ~g_water_plant
    /\ PB0 \in PORTB

\* C7: at every tick boundary the indicator lock is held exactly when a run
\* is active.
C7_LockIffRunning == g_led_lock <=> Running

\* C7 witness: the lock is held for a run that straddles the day wrap.
W_C7_LockAcrossWrap ==
    /\ g_led_lock
    /\ Running
    /\ g_ticks < pump_start_ticks

\* C8: DayClock is in [0, 86424) at every tick boundary, and each tick takes
\* it from v to (v + 1) mod 86424.
C8_DayClockRange ==
    /\ [](g_ticks \in 0 .. (24 * 3601 - 1))
    /\ [][ g_ticks' # g_ticks => g_ticks' = (g_ticks + 1) % (24 * 3601) ]_vars

\* C8 witness: the clock has wrapped: main() last saw the last tick of the day.
W_C8_Wrapped == g_ticks = 0 /\ prev_tick = FULL_DAY_TICKS - 1

\* C9 (as claimed): the published DurationSetting is 5 + round(55 s / 1023),
\* rounded to nearest, 5 for sample 0 and 60 for sample 1023, monotonic.
Cex_C9_RoundToNearest ==
    [][ (pc = "l537" /\ pc' = "l545") =>
          /\ g_duration' = 5 + RoundDiv(55 * duration, 1023)
          /\ (duration = 0 => g_duration' = 5)
          /\ (duration = 1023 => g_duration' = 60)
          /\ (duration < 1023 => g_duration' <= Narrow8(DurationMap(duration + 1))) ]_vars

\* C9 (amended): the published DurationSetting is 5 + floor(55 s / 1023)
\* (the quotient is truncated), 5 for sample 0 and 60 for sample 1023, and
\* the mapping is monotonic non-decreasing.
C9_Truncates ==
    [][ (pc = "l537" /\ pc' = "l545") =>
          /\ 1023 * (g_duration' - 5) <= 55 * duration
          /\ 55 * duration < 1023 * (g_duration' - 5 + 1)
          /\ (duration = 0 => g_duration' = 5)
          /\ (duration = 1023 => g_duration' = 60)
          /\ (duration < 1023 => g_duration' <= Narrow8(DurationMap(duration + 1))) ]_vars

\* C9 witness: sample 1022 was published as 59 (to nearest it would be 60).
W_C9_Sample1022 == pc = "l545" /\ adc3 = 1022 /\ duration = 59 /\ g_duration = 59

\* C10: DurationSetting is in [5, 60] in every state, for every sample; so a
\* tick that creates a run leaves it active, with the pump on.
C10_DurationInRange ==
    /\ [](g_duration \in 5 .. 60)
    /\ [][ (g_ticks' # g_ticks /\ ~Running
              /\ (g_water_plant \/ EventMatch(g_ticks + 1)))
            => /\ pump_start_ticks' = g_ticks + 1
               /\ PB0 \in PORTB' ]_vars

\* C10 witness: a run is active under the largest setting, published from
\* sample 1023.
W_C10_RunAtSixty == adc3 = 1023 /\ g_duration = 60 /\ Running /\ PB0 \in PORTB

MainStep == pc' # pc

\* C12 (as claimed): at every instant of a run the status LED is on, no step
\* of the main loop changes the LED while a run is active, whatever the
\* interleaving of the tick handler with the lock check and the toggle, and
\* the LED is off when the run completes.
Cex_C12_LedSolidInRun ==
    [][ /\ Running' => PB2 \in PORTB'
        /\ (MainStep /\ Running) => ((PB2 \in PORTB') <=> (PB2 \in PORTB))
        /\ (Running /\ ~Running') => PB2 \notin PORTB' ]_vars

\* C13 (as claimed): the pump output changes only in the tick handler, and
\* outside the handler it is on exactly when a run is active, also when the
\* handler runs between the read and the write-back of the main loop's
\* toggle of the LED bit.
Cex_C13_PumpOnlyByTick ==
    [][ /\ ((PB0 \in PORTB') # (PB0 \in PORTB)) => g_ticks' # g_ticks
        /\ (PB0 \in PORTB') <=> Running' ]_vars

\* The clock value k ticks ago.
TicksAgo(k) == (g_ticks + FULL_DAY_TICKS - k) % FULL_DAY_TICKS

\* C14 (as claimed): every value the main loop obtains from a read of g_ticks
\* (lines 512 and 514) is a value g_ticks held at a tick boundary: the value
\* now or the value before one of the ticks that fired since the loop head
\* last compared.
Cex_C14_ReadNotTorn ==
    [][ (pc \in {"l512_2", "l514_2"} /\ MainStep)
          => \E k \in 0 .. lag : rd' = TicksAgo(k) ]_vars

\* C15: a pass of the main loop's per-tick block goes on to the toggle of
\* line 577 exactly when the lock it reads is free and its charging sample is
\* at least 553; the toggle writes the LED bit as the complement of the bit it
\* read (of the bit PORTB holds when the handler has not run in between); a
\* pass that does not toggle ends with PORTB as it was, and no other step of
\* the main loop changes PORTB.
C15_ToggleIffCharging ==
    [][ MainStep =>
          /\ (pc = "l564") => ((pc' = "l577") <=> (~g_led_lock /\ solar_panel >= 553))
          /\ (pc = "l564" /\ pc' # "l577") => (pc' = "l512_0" /\ PORTB' = PORTB)
          /\ (pc = "l577") => (pc' = "l577_out" /\ portb_tmp' = PORTB)
          /\ (pc = "l577_out")
               => /\ (PB2 \in PORTB') <=> (PB2 \notin portb_tmp)
                  /\ (PORTB = portb_tmp) => ((PB2 \in PORTB') <=> (PB2 \notin PORTB))
                  /\ pc' = "l512_0"
          /\ (PORTB' # PORTB) => pc = "l577_out"
      ]_vars

\* C15 witness: the pump is idle, the LED was lit by an earlier toggle, and
\* this pass has a sample below the threshold.
W_C15_BelowAfterAbove ==
    /\ pc = "l564" /\ solar_panel = 552 /\ ~g_led_lock
    /\ PB2 \in PORTB /\ ~Running /\ g_ticks = 2

\* The entries of the event table, as day ticks.
TableTicks == { g_daily_events[i] : i \in DOMAIN g_daily_events }

\* C16: in a tick that begins with no run active and no confirmed request, a
\* run starts (pump on, lock taken, start tick = the incremented clock)
\* exactly when the incremented clock is an entry of the event table; with no
\* entry met no run starts and the handler leaves the outputs alone.
C16_ScheduledStart ==
    [][ (g_ticks' # g_ticks /\ ~Running /\ ~g_water_plant)
          => /\ (pump_start_ticks' # 0) <=> (g_ticks + 1 \in TableTicks)
             /\ (g_ticks + 1 \in TableTicks)
                  => /\ pump_start_ticks' = g_ticks + 1
                     /\ PB0 \in PORTB' /\ g_led_lock'
                     /\ start_cause' = "scheduled"
             /\ (g_ticks + 1 \notin TableTicks)
                  => /\ PORTB' = PORTB /\ ~g_led_lock'
                     /\ start_cause' = "none" ]_vars

\* C16 witness: the first table entry has just started a run.
W_C16_FirstEntry ==
    /\ start_cause = "scheduled" /\ g_ticks = g_daily_events[1]
    /\ pump_start_ticks = g_ticks /\ PB0 \in PORTB /\ g_led_lock

\* C17: a run is created with the incremented clock as its start tick, never
\* with 0, by a table entry and by a request, also in the tick of the day wrap
\* (start tick FULL_DAY_TICKS); so pump_start_ticks = 0 exactly when no run is
\* in progress.
C17_StartNeverZero ==
    /\ [](Running <=> start_cause # "none")
    /\ [][ (start_cause = "none" /\ start_cause' # "none")
             => /\ pump_start_ticks' = g_ticks + 1
                /\ pump_start_ticks' \in 1 .. FULL_DAY_TICKS ]_vars

\* C17 witness: a request was consumed in the tick of the day wrap.
W_C17_StartAtWrap ==
    /\ start_cause = "manual" /\ pump_start_ticks = FULL_DAY_TICKS
    /\ g_ticks = 0 /\ PB0 \in PORTB

\* C18: the overflow count stays in 0 .. TIMER_OVERFLOW_TICK - 1; the compare
\* match interrupt becomes enabled only in the overflow that completes the
\* stage (the count returns to 0) and stays enabled only until the tick it
\* emits; a tick is emitted only while it is enabled and disables it, so each
\* stage of TIMER_OVERFLOW_TICK overflows emits exactly one tick.
C18_OneTickPerStage ==
    /\ [](g_overflows \in 0 .. (4708 - 1))
    /\ [](ocie0a => g_overflows = 0)
    /\ [][ /\ (~ocie0a /\ ocie0a')
               => (g_overflows = 4708 - 1 /\ g_overflows' = 0 /\ g_ticks' = g_ticks)
           /\ (g_ticks' # g_ticks)
               => (ocie0a /\ ~ocie0a' /\ g_overflows' = g_overflows)
           /\ (ocie0a /\ ~ocie0a') => g_ticks' = (g_ticks + 1) % FULL_DAY_TICKS
           /\ (g_overflows' # g_overflows)
               => (~ocie0a /\ g_overflows' = (g_overflows + 1) % 4708)
         ]_vars

\* C18 witness: the second stage is under way after the first one emitted its
\* tick.
W_C18_SecondStage == g_ticks = 1 /\ g_overflows = 4708 - 1 /\ ~ocie0a

\* The active run was created with start tick + duration beyond the last tick
\* of the day, and the setting is the one it was created under.
StraddlesWrap ==
    /\ Running
    /\ pump_start_ticks + start_duration > FULL_DAY_TICKS
    /\ g_duration = start_duration

C20_FlagsKeptUntilUsed ==
    [][ /\ (g_water_button /\ ~g_water_button') => (pc = "l522" /\ pc' = "l527")
        /\ (pc # "l522" /\ pc' = "l522") => (pc = "l521" /\ g_water_plant')
        /\ (pc = "l518" /\ MainStep /\ ~(g_water_button /\ button_low))
             => (g_water_button' = g_water_button /\ pc' = "l527")
        /\ (g_water_plant /\ ~g_water_plant')
             => /\ g_ticks' # g_ticks /\ ~Running
                /\ pump_start_ticks' = g_ticks + 1 /\ start_cause' = "manual"
        /\ (g_ticks' # g_ticks /\ Running) => g_water_plant' = g_water_plant
      ]_vars

\* C20 witness: a request confirmed during a run is still pending after the
\* tick that ended the run, and a raw flag whose pin was released is still set
\* after its check.
W_C20_PendingAfterRun ==
    /\ request_in_run /\ g_water_plant /\ ~Running
    /\ g_water_button /\ ~button_low /\ pc = "l527"

====
